---- MODULE Spec2Model ----
(***************************************************************************)
(* Model of dwmaya: the camera-sequencer track helpers (__track.py), the   *)
(* UDIM texture path resolver (shading.py: get_udim_filepaths) and the     *)
(* renderable-camera helpers (camera.py).                                  *)
(*                                                                         *)
(* The host scene is the state: the sequencer's tracks (a title each) and  *)
(* its shot nodes (name, track, sequenceStartFrame, sequenceEndFrame), and *)
(* the files on disk.  Each function of the source is one action; what it  *)
(* was called with, what it returned (or raised) and the scene it started  *)
(* from are recorded in op, args, ret, pre and trace.                      *)
(***************************************************************************)
EXTENDS Integers, Sequences, FiniteSets

VARIABLES
    titles,     \* sequencer: titles[i] is the title of track i; Len = numTracks
    shots,      \* cmds.ls(type="shot"): sequence of shot records
    disk,       \* the directory glob reads: its file names, in listing order
    filepath,   \* the texture path held by a file node of the scene
    cameras,    \* mc.ls(type='camera'): sequence of camera shape records
    op,         \* name of the function called last ("" before any call)
    args,       \* its arguments
    ret,        \* what it returned: [kind |-> "None" | "value" | "raise", val]
    pre,        \* the sequencer before the call: [titles, shots]
    trace       \* the host calls / locals the call went through

vars == <<titles, shots, disk, filepath, cameras, op, args, ret, pre, trace>>

\* ---------------------------------------------------------------- bounds
MaxTracks == 3
MaxShots == 2
MaxFrame == 2
MaxStem == 2
MaxFiles == 2
MaxCameras == 2

Frames == 0..MaxFrame
Ranges == {r \in Frames \X Frames : r[1] <= r[2]}

\* ---------------------------------------------------------------- values
None == [kind |-> "None", val |-> 0]
Value(v) == [kind |-> "value", val |-> v]
Raise(e) == [kind |-> "raise", val |-> e]

\* cmds.shotTrack(query=True, numTracks=True)
numTracks(ts) == Len(ts)

\* cmds.getAttr(shot + "." + attr): the record of the shot node named n
getShot(shotList, n) ==
    shotList[CHOOSE j \in 1..Len(shotList) : shotList[j].name = n]

\* ------------------------------------------------------- tracks_to_lists
\* tracks = [[]] * numTracks builds numTracks references to ONE list object
\* (object 0 of the heap below); tracks[track].append(shot) appends to the
\* object the entry refers to.
tracks_to_lists(ts, shotList) ==
    LET tracks == [k \in 1..numTracks(ts) |-> 0]
        RECURSIVE fill(_, _)
        fill(heap, j) ==
            IF j > Len(shotList) THEN heap
            ELSE LET track == shotList[j].track - 1
                     obj == tracks[track + 1]
                 IN  fill([heap EXCEPT ![obj] = Append(@, shotList[j].name)],
                          j + 1)
        heap == fill([o \in {0} |-> <<>>], 1)
    IN  [k \in 1..numTracks(ts) |-> heap[tracks[k]]]

\* --------------------------------------------- find_track_with_free_range
overlapsStrict(start_frame, end_frame, shot_start_frame, shot_end_frame) ==
    \/ (start_frame < shot_start_frame /\ shot_start_frame < end_frame)
    \/ (start_frame < shot_end_frame /\ shot_end_frame < end_frame)

overlapsIntersect(start_frame, end_frame, shot_start_frame, shot_end_frame) ==
    shot_start_frame <= end_frame /\ start_frame <= shot_end_frame

overlaps(start_frame, end_frame, shot_start_frame, shot_end_frame) ==
    \/ (start_frame <= shot_start_frame /\ shot_start_frame <= end_frame)
    \/ (start_frame <= shot_end_frame /\ shot_end_frame <= end_frame)

\* for i, track in enumerate(...): for shot in track: ... break / else: return
find_track_with_free_range(ts, shotList, start_frame, end_frame) ==
    LET lists == tracks_to_lists(ts, shotList)
        hit(track) ==
            \E j \in 1..Len(track) :
                overlaps(start_frame, end_frame,
                         getShot(shotList, track[j]).sequenceStartFrame,
                         getShot(shotList, track[j]).sequenceEndFrame)
        RECURSIVE scan(_)
        scan(i) ==
            IF i >= Len(lists) THEN None
            ELSE IF hit(lists[i + 1]) THEN scan(i + 1)
            ELSE Value(i + 1)
    IN  scan(0)

\* ------------------------------------------------------ list_track_titles
list_track_titles(ts) == [i \in 1..numTracks(ts) |-> ts[i]]

\* ------------------------------------- list_used_sequencer_track_indexes
list_used_sequencer_track_indexes(shotList) ==
    {shotList[j].track : j \in 1..Len(shotList)}

\* ------------------------------------------------------------ host calls
\* cmds.shotTrack(removeTrack=i): track i is deleted and every higher track
\* moves down by one (an index that names no track changes nothing).
removeTrack(seq, i) ==
    IF i \notin 1..Len(seq.titles) THEN seq
    ELSE [titles |-> [k \in 1..(Len(seq.titles) - 1) |->
                        IF k < i THEN seq.titles[k] ELSE seq.titles[k + 1]],
          shots |-> [j \in 1..Len(seq.shots) |->
                        IF seq.shots[j].track > i
                        THEN [seq.shots[j] EXCEPT !.track = @ - 1]
                        ELSE seq.shots[j]]]

\* cmds.shotTrack(insertTrack=index, title=title) with index = numTracks + 1
insertTrack(seq, index, title) ==
    [titles |-> [k \in 1..(Len(seq.titles) + 1) |->
                    IF k < index THEN seq.titles[k]
                    ELSE IF k = index THEN title
                    ELSE seq.titles[k - 1]],
     shots |-> [j \in 1..Len(seq.shots) |->
                    IF seq.shots[j].track >= index
                    THEN [seq.shots[j] EXCEPT !.track = @ + 1]
                    ELSE seq.shots[j]]]

\* -------------------------------------------- remove_unused_sequencer_tracks
rangeUp(n) == [k \in 1..n |-> k]

\* range(numTracks, 0, -1)
rangeDown(n) == [k \in 1..n |-> n + 1 - k]

\* the loop: the final sequencer and the removeTrack calls made, in order
remove_unused_sequencer_tracks(seq) ==
    LET used_tracks_indexes == list_used_sequencer_track_indexes(seq.shots)
        order == rangeDown(numTracks(seq.titles))
        RECURSIVE loop(_, _, _)
        loop(s, calls, k) ==
            IF k > Len(order) THEN [seq |-> s, calls |-> calls]
            ELSE IF order[k] \in used_tracks_indexes THEN loop(s, calls, k + 1)
            ELSE loop(removeTrack(s, order[k]), Append(calls, order[k]), k + 1)
    IN  loop(seq, <<>>, 1)

\* -------------------------------------------------------- find_track_index
find_track_index(ts, track_title) ==
    LET order == rangeDown(numTracks(ts))
        RECURSIVE loop(_)
        loop(k) ==
            IF k > Len(order) THEN None
            ELSE IF ts[order[k]] = track_title THEN Value(order[k])
            ELSE loop(k + 1)
    IN  loop(1)

\* ------------------------------------------------- append_sequencer_track
append_sequencer_track(seq, title) ==
    LET index == numTracks(seq.titles) + 1
    IN  [seq |-> insertTrack(seq, index, title), index |-> index]

\* ============================================================ shading.py
\* A string is the sequence of its characters.
UDIM_UV_PATTERN == <<"_", "u", "<", "u", ">", "_", "v", "<", "v", ">">>
Digits == {"0", "1", "2"}

\* str.lower(), on the letters the paths are written with
lowerChar(c) ==
    CASE c = "U" -> "u"
      [] c = "V" -> "v"
      [] c = "E" -> "e"
      [] c = "X" -> "x"
      [] c = "R" -> "r"
      [] OTHER -> c

lower(str) == [i \in 1..Len(str) |-> lowerChar(str[i])]

\* the 0-based offsets at which sub occurs in str
occurrences(str, sub) ==
    {i \in 0..(Len(str) - Len(sub)) : SubSeq(str, i + 1, i + Len(sub)) = sub}

Min(S) == CHOOSE i \in S : \A k \in S : i <= k

\* str.index(sub): the lowest offset, ValueError when sub does not occur
index(str, sub) ==
    IF occurrences(str, sub) = {} THEN Raise("ValueError")
    ELSE Value(Min(occurrences(str, sub)))

\* sub in str
contains(str, sub) == occurrences(str, sub) # {}

\* os.path.splitext(path)[-1] of a path without directory separator: from
\* the last dot on, unless only dots precede it
splitext(path) ==
    LET dots == {i \in 1..Len(path) : path[i] = "."}
    IN  IF dots = {} THEN <<>>
        ELSE LET dotIndex == CHOOSE d \in dots : \A k \in dots : k <= d
             IN  IF \E i \in 1..(dotIndex - 1) : path[i] # "."
                 THEN SubSeq(path, dotIndex, Len(path))
                 ELSE <<>>

match_extension_pattern_1to4(path) ==
    /\ Len(path) >= 6
    /\ SubSeq(path, 1, 6) = <<".", "1", "0", "0", "1", ".">>
    /\ (Len(path) - 6) \in 1..4

\* re.compile(UDIM_EXTENSION_PATTERN).match(path): match() anchors the
\* pattern \.1001\..{2,4}$ at the START of the path
match_extension_pattern(path) ==
    /\ Len(path) >= 6
    /\ SubSeq(path, 1, 6) = <<".", "1", "0", "0", "1", ".">>
    /\ (Len(path) - 6) \in 2..4

\* the 0-based offsets at which UDIM_UV_RE_PATTERN _u\d_v\d matches
uv_re_matches(path) ==
    {i \in 0..(Len(path) - 6) :
        /\ path[i + 1] = "_" /\ path[i + 2] = "u" /\ path[i + 3] \in Digits
        /\ path[i + 4] = "_" /\ path[i + 5] = "v" /\ path[i + 6] \in Digits}

\* re.compile('.*' + UDIM_UV_RE_PATTERN + '.*').match(path)
match_uv_re_pattern(path) == uv_re_matches(path) # {}

\* re.split(UDIM_UV_RE_PATTERN, path)[0]: the text before the first match
split_uv_re_first(path) ==
    IF uv_re_matches(path) = {} THEN path
    ELSE SubSeq(path, 1, Min(uv_re_matches(path)))

\* fnmatch of name against a pattern of literal characters and '*'
\* (case-sensitive, as on POSIX)
RECURSIVE fnmatch(_, _)
fnmatch(name, pat) ==
    IF pat = <<>> THEN name = <<>>
    ELSE IF Head(pat) = "*"
         THEN \E k \in 0..Len(name) :
                fnmatch(SubSeq(name, k + 1, Len(name)), Tail(pat))
         ELSE /\ name # <<>>
              /\ Head(name) = Head(pat)
              /\ fnmatch(Tail(name), Tail(pat))

ishidden(str) == str # <<>> /\ Head(str) = "."

\* glob.glob(pattern) in the directory listed by listing: hidden names are
\* skipped unless the pattern is hidden itself; listing order is kept
glob(pattern, listing) ==
    SelectSeq(listing,
              LAMBDA name : /\ (ishidden(pattern) \/ ~ishidden(name))
                            /\ fnmatch(name, pattern))

\* path.replace('\\', '/')
replace_backslash(str) ==
    [i \in 1..Len(str) |-> IF str[i] = "\\" THEN "/" ELSE str[i]]

truthyNotNone(x) == x.kind = "value"

\* if path_start_length: neither None nor 0
truthy(x) == x.kind = "value" /\ x.val # 0

\* get_udim_filepaths(path): what it returns or raises, with the offset it
\* computed and the pattern it globbed (None when it did not glob)
get_udim_filepaths(path, listing) ==
    LET extension == splitext(path)
        path_start_length ==
            IF match_extension_pattern(path)
            THEN index(lower(path), <<"1", "0", "0", "1">> \o extension)
            ELSE IF contains(lower(path), UDIM_UV_PATTERN)
            THEN index(lower(path), UDIM_UV_PATTERN)
            ELSE IF match_uv_re_pattern(path)
            THEN Value(Len(split_uv_re_first(path)))
            ELSE None
        pattern == SubSeq(path, 1, path_start_length.val) \o <<"*">> \o extension
        found == glob(pattern, listing)
    IN  IF path_start_length.kind = "raise"
        THEN [ret |-> path_start_length,
              path_start_length |-> None, pattern |-> None]
        ELSE IF truthy(path_start_length)
        THEN [ret |-> Value([i \in 1..Len(found) |-> replace_backslash(found[i])]),
              path_start_length |-> path_start_length,
              pattern |-> Value(pattern)]
        ELSE [ret |-> Value(<<>>),
              path_start_length |-> path_start_length, pattern |-> None]

\* ============================================================== camera.py
\* A camera shape: its name, the value of its renderable attribute, whether
\* the attribute is locked, whether the lock can be changed (it cannot on a
\* referenced node) and whether an incoming connection drives the attribute.

\* get_attr(cam, 'renderable')
get_attr(cams, i) == cams[i].renderable

\* unlock_attr(cam, 'renderable'): the cameras after it, or the error raised
unlock_attr(cams, i) ==
    IF cams[i].locked /\ cams[i].referenced
    THEN [cams |-> cams, raised |-> "RuntimeError"]
    ELSE [cams |-> [cams EXCEPT ![i].locked = FALSE], raised |-> ""]

\* mc.setAttr(cam + '.renderable', value): refused on a locked or connected
\* attribute
setAttr(cams, i, value) ==
    IF cams[i].locked \/ cams[i].connected
    THEN [cams |-> cams, raised |-> "RuntimeError"]
    ELSE [cams |-> [cams EXCEPT ![i].renderable = value], raised |-> ""]

\* set_attr(cam, 'renderable', value)
set_attr(cams, i, value) == setAttr(cams, i, value)

\* set_all_cameras_not_renderable(): every failure is caught and printed;
\* the cameras afterwards and the names printed
set_all_cameras_not_renderable(cams) ==
    LET RECURSIVE loop(_, _, _)
        loop(cs, printed, i) ==
            IF i > Len(cs) THEN [cams |-> cs, printed |-> printed]
            ELSE IF get_attr(cs, i) = FALSE THEN loop(cs, printed, i + 1)
            ELSE LET u == unlock_attr(cs, i)
                     w == set_attr(u.cams, i, FALSE)
                 IN  IF u.raised # "" THEN loop(cs, Append(printed, cs[i].name), i + 1)
                     ELSE IF w.raised # ""
                     THEN loop(u.cams, Append(printed, cs[i].name), i + 1)
                     ELSE loop(w.cams, printed, i + 1)
    IN  loop(cams, <<>>, 1)

\* [c for c in mc.ls(type='camera', recursive=True)
\*  if mc.getAttr(c + '.renderable')]
renderable_cameras(cams) ==
    LET r == SelectSeq(cams, LAMBDA c : c.renderable)
    IN  [k \in 1..Len(r) |-> r[k].name]

not_single_first_only(names, cam) == names[1] # cam

\* len(renderable_cameras) != 1 or renderable_cameras[0] != cam
not_single(names, cam) == Len(names) # 1 \/ names[1] # cam

\* set_single_camera_renderable(cam), cam the i-th camera: the cameras
\* afterwards, what was returned or raised, and the names printed
set_single_camera_renderable(cams, i) ==
    LET a == set_all_cameras_not_renderable(cams)
        w == setAttr(a.cams, i, TRUE)
    IN  IF w.raised # ""
        THEN [cams |-> a.cams, ret |-> Raise(w.raised), printed |-> a.printed]
        ELSE IF not_single(renderable_cameras(w.cams), cams[i].name)
        THEN [cams |-> w.cams, ret |-> Raise("ValueError"), printed |-> a.printed]
        ELSE [cams |-> w.cams, ret |-> None, printed |-> a.printed]

\* ================================================================ actions
Sequencer == [titles |-> titles, shots |-> shots]

\* the shot nodes a scene of n tracks can hold: every shot sits on a track
\* of the sequencer and starts no later than it ends
ShotAttrs(n) ==
    {a \in [track : 1..n, sequenceStartFrame : Frames, sequenceEndFrame : Frames] :
        a.sequenceStartFrame <= a.sequenceEndFrame}

ShotNodes(f) ==
    [j \in DOMAIN f |-> [name |-> j,
                         track |-> f[j].track,
                         sequenceStartFrame |-> f[j].sequenceStartFrame,
                         sequenceEndFrame |-> f[j].sequenceEndFrame]]

\* cmds.ls lists the shot nodes by name; the nodes are named in the order of
\* (track, start, end), every other scene being a renaming of one of these
Before(a, b) ==
    \/ a.track < b.track
    \/ /\ a.track = b.track
       /\ \/ a.sequenceStartFrame < b.sequenceStartFrame
          \/ /\ a.sequenceStartFrame = b.sequenceStartFrame
             /\ a.sequenceEndFrame <= b.sequenceEndFrame

NoCall ==
    /\ op = ""
    /\ args = <<>>
    /\ ret = None
    /\ trace = <<>>

\* a scene of untitled tracks holding shots
Init ==
    /\ \E n \in 0..MaxTracks :
        /\ titles = [k \in 1..n |-> ""]
        /\ \E k \in 0..MaxShots :
            \E f \in [1..k -> ShotAttrs(n)] :
                /\ \A j \in 1..(k - 1) : Before(f[j], f[j + 1])
                /\ shots = ShotNodes(f)
    /\ disk = <<>>
    /\ filepath = <<>>
    /\ cameras = <<>>
    /\ pre = [titles |-> titles, shots |-> shots]
    /\ NoCall

Called(name, a, r, t) ==
    /\ op' = name
    /\ args' = a
    /\ ret' = r
    /\ trace' = t
    /\ pre' = Sequencer

TracksToLists ==
    /\ Called("tracks_to_lists", <<>>, Value(tracks_to_lists(titles, shots)), <<>>)
    /\ UNCHANGED <<titles, shots, disk, filepath, cameras>>

FindTrackWithFreeRange ==
    \E r \in Ranges :
        /\ Called("find_track_with_free_range", r,
                  find_track_with_free_range(titles, shots, r[1], r[2]), <<>>)
        /\ UNCHANGED <<titles, shots, disk, filepath, cameras>>

RemoveUnusedSequencerTracks ==
    LET r == remove_unused_sequencer_tracks(Sequencer)
    IN  /\ Called("remove_unused_sequencer_tracks", <<>>, None, r.calls)
        /\ titles' = r.seq.titles
        /\ shots' = r.seq.shots
        /\ UNCHANGED <<disk, filepath, cameras>>

AppendSequencerTrack(title) ==
    /\ numTracks(titles) < MaxTracks
    /\ LET r == append_sequencer_track(Sequencer, title)
       IN  /\ Called("append_sequencer_track", <<title>>, Value(r.index), <<>>)
           /\ titles' = r.seq.titles
           /\ shots' = r.seq.shots
    /\ UNCHANGED <<disk, filepath, cameras>>

Next ==
    \/ TracksToLists
    \/ FindTrackWithFreeRange
    \/ RemoveUnusedSequencerTracks
    \/ AppendSequencerTrack("")

Spec == Init /\ [][Next]_vars

\* ------------------------------------------------- titled, shotless tracks
Titles == {"A", "B", "C"}

InitTitles ==
    /\ titles = <<>>
    /\ shots = <<>>
    /\ disk = <<>>
    /\ filepath = <<>>
    /\ cameras = <<>>
    /\ pre = [titles |-> titles, shots |-> shots]
    /\ NoCall

ListTrackTitles ==
    /\ Called("list_track_titles", <<>>, Value(list_track_titles(titles)), <<>>)
    /\ UNCHANGED <<titles, shots, disk, filepath, cameras>>

FindTrackIndex ==
    \E track_title \in Titles :
        /\ Called("find_track_index", <<track_title>>,
                  find_track_index(titles, track_title), <<>>)
        /\ UNCHANGED <<titles, shots, disk, filepath, cameras>>

NextTitles ==
    \/ \E title \in Titles : AppendSequencerTrack(title)
    \/ ListTrackTitles
    \/ FindTrackIndex
    \/ RemoveUnusedSequencerTracks

SpecTitles == InitTitles /\ [][NextTitles]_vars

\* ------------------------------------------------------- texture paths
Cat(a, b) == a \o b

T1001 == <<"1", "0", "0", "1">>
UvMixed == <<"_", "U", "<", "U", ">", "_", "v", "<", "V", ">">>
Uv12 == <<"_", "u", "1", "_", "v", "2">>
UvUpper12 == <<"_", "U", "1", "_", "V", "2">>
UvNoDigit == <<"_", "u", "1", "_", "v">>
ExtExr == <<".", "e", "x", "r">>

StemChars == {"t", "."}
Stems == UNION {[1..n -> StemChars] : n \in 0..MaxStem}
Tokens == {<<>>, T1001, UDIM_UV_PATTERN, UvMixed, Uv12, UvUpper12, UvNoDigit}
SecondTokens == {<<>>, UDIM_UV_PATTERN, Uv12}
Extensions ==
    {<<>>, <<".", "e">>, ExtExr, <<".", "E", "X", "R">>, <<".", "x", ".", "r">>,
     <<".", "e", "x", "r", "x", "r">>}

Paths ==
    {Cat(Cat(stem, token), Cat(second, extension)) :
        stem \in Stems, token \in Tokens,
        second \in SecondTokens, extension \in Extensions}

Files ==
    {<<"t", ".", "1", "0", "0", "1">> \o ExtExr,
     <<"t", ".", "1", "0", "0", "2">> \o ExtExr,
     <<".", "1", "0", "0", "2">> \o ExtExr,
     <<"t", "\\", "2">> \o ExtExr}

\* the directory listings of at most MaxFiles files, in any order
Listings ==
    UNION {{l \in [1..n -> Files] : \A i, j \in 1..n : l[i] = l[j] => i = j} :
            n \in 0..MaxFiles}

InitUdim ==
    /\ titles = <<>>
    /\ shots = <<>>
    /\ disk \in Listings
    /\ filepath \in Paths
    /\ cameras = <<>>
    /\ pre = [titles |-> titles, shots |-> shots]
    /\ NoCall

\* get_udim_filepaths(filepath), as list_texture_filepaths calls it
GetUdimFilepaths ==
    LET r == get_udim_filepaths(filepath, disk)
    IN  /\ Called("get_udim_filepaths", <<filepath>>, r.ret,
                  [path_start_length |-> r.path_start_length,
                   pattern |-> r.pattern])
        /\ UNCHANGED <<titles, shots, disk, filepath, cameras>>

NextUdim == GetUdimFilepaths

SpecUdim == InitUdim /\ [][NextUdim]_vars

\* ---------------------------------------------------------------- cameras
CameraAttrs == [renderable : BOOLEAN, locked : BOOLEAN,
                referenced : BOOLEAN, connected : BOOLEAN]

CameraNodes(f) ==
    [j \in DOMAIN f |-> [name |-> j,
                         renderable |-> f[j].renderable,
                         locked |-> f[j].locked,
                         referenced |-> f[j].referenced,
                         connected |-> f[j].connected]]

InitCamera ==
    /\ titles = <<>>
    /\ shots = <<>>
    /\ disk = <<>>
    /\ filepath = <<>>
    /\ \E n \in 0..MaxCameras :
        \E f \in [1..n -> CameraAttrs] : cameras = CameraNodes(f)
    /\ pre = cameras
    /\ NoCall

SetAllCamerasNotRenderable ==
    LET r == set_all_cameras_not_renderable(cameras)
    IN  /\ op' = "set_all_cameras_not_renderable"
        /\ args' = <<>>
        /\ ret' = None
        /\ trace' = r.printed
        /\ pre' = cameras
        /\ cameras' = r.cams
        /\ UNCHANGED <<titles, shots, disk, filepath>>

SetSingleCameraRenderable ==
    \E i \in 1..Len(cameras) :
        LET r == set_single_camera_renderable(cameras, i)
        IN  /\ op' = "set_single_camera_renderable"
            /\ args' = <<cameras[i].name>>
            /\ ret' = r.ret
            /\ trace' = r.printed
            /\ pre' = cameras
            /\ cameras' = r.cams
            /\ UNCHANGED <<titles, shots, disk, filepath>>

NextCamera ==
    \/ SetAllCamerasNotRenderable
    \/ SetSingleCameraRenderable

SpecCamera == InitCamera /\ [][NextCamera]_vars

\* ================================================================= claims
\* the shot has its start or its end inside [r[1], r[2]], bounds included
EndpointInRange(shot, r) ==
    \/ (r[1] <= shot.sequenceStartFrame /\ shot.sequenceStartFrame <= r[2])
    \/ (r[1] <= shot.sequenceEndFrame /\ shot.sequenceEndFrame <= r[2])

ShotsOn(seq, i) == {j \in 1..Len(seq.shots) : seq.shots[j].track = i}

\* the tracks of seq on which no shot has an endpoint inside r
FreeTracks(seq, r) ==
    {i \in 1..Len(seq.titles) :
        \A j \in ShotsOn(seq, i) : ~EndpointInRange(seq.shots[j], r)}

Lowest(S) == CHOOSE i \in S : \A k \in S : i <= k

\* C1: find_track_with_free_range returns the lowest 1-based track index
\* on which no shot assigned to that track overlaps the range (an empty
\* track is free), and None when there is no such track.
C1_LowestFreeTrack ==
    op = "find_track_with_free_range" =>
        IF FreeTracks(pre, args) = {} THEN ret = None
        ELSE ret = Value(Lowest(FreeTracks(pre, args)))

\* C2: when every track holds a shot overlapping the range (or there is no
\* track), find_track_with_free_range returns None without raising, and a
\* returned index always lies in 1..numTracks.
C2_NoneWhenAllOverlap ==
    op = "find_track_with_free_range" =>
        /\ ret.kind # "raise"
        /\ FreeTracks(pre, args) = {} => ret = None
        /\ ret.kind = "value" => ret.val \in 1..Len(pre.titles)

C2_Witness ==
    /\ op = "find_track_with_free_range"
    /\ Len(pre.titles) >= 2
    /\ \A i \in 1..Len(pre.titles) :
        \E j \in ShotsOn(pre, i) : EndpointInRange(pre.shots[j], args)
    /\ ret = None

\* C3: the overlap test is endpoint-in-range with inclusive bounds: a shot
\* with an endpoint inside the range (shot_start = end and shot_end = start
\* included) keeps its track from being returned, and shots with no endpoint
\* inside the range (a shot strictly containing the range included) never
\* make the search fail.
C3_EndpointOverlap ==
    op = "find_track_with_free_range" =>
        /\ \A j \in 1..Len(pre.shots) :
            EndpointInRange(pre.shots[j], args)
                => ret # Value(pre.shots[j].track)
        /\ (/\ Len(pre.titles) >= 1
            /\ \A j \in 1..Len(pre.shots) : ~EndpointInRange(pre.shots[j], args))
                => ret.kind = "value"

C3_Witness ==
    /\ op = "find_track_with_free_range"
    /\ \E j \in 1..Len(pre.shots) :
        /\ pre.shots[j].sequenceStartFrame < args[1]
        /\ pre.shots[j].sequenceEndFrame > args[2]
        /\ ret = Value(pre.shots[j].track)
    /\ \E j \in 1..Len(pre.shots) : pre.shots[j].track # 1

\* C8: tracks_to_lists returns numTracks lists, the list at position k
\* holding exactly the shots whose track attribute is k.
C8_Partition ==
    op = "tracks_to_lists" =>
        /\ Len(ret.val) = Len(pre.titles)
        /\ \A k \in 1..Len(ret.val) :
            {ret.val[k][x] : x \in 1..Len(ret.val[k])}
                = {pre.shots[j].name : j \in ShotsOn(pre, k)}

\* C9: find_track_index returns the lowest 1-based index among the tracks
\* carrying track_title, and None when no track carries it.
C9_FirstTrackWithTitle ==
    op = "find_track_index" =>
        LET holders == {i \in 1..Len(pre.titles) : pre.titles[i] = args[1]}
        IN  IF holders = {} THEN ret = None
            ELSE ret = Value(Lowest(holders))

\* C10: remove_unused_sequencer_tracks removes exactly the empty tracks:
\* afterwards every track holds a shot, there are as many tracks as held a
\* shot before, every shot is still there with its frames, and the shots'
\* tracks keep their relative order.
C10_RemovesExactlyEmpty ==
    op = "remove_unused_sequencer_tracks" =>
        /\ \A k \in 1..Len(titles) : ShotsOn(Sequencer, k) # {}
        /\ Len(titles) = Cardinality({pre.shots[j].track : j \in 1..Len(pre.shots)})
        /\ Len(shots) = Len(pre.shots)
        /\ \A j \in 1..Len(shots) :
            /\ shots[j].name = pre.shots[j].name
            /\ shots[j].sequenceStartFrame = pre.shots[j].sequenceStartFrame
            /\ shots[j].sequenceEndFrame = pre.shots[j].sequenceEndFrame
            /\ shots[j].track \in 1..Len(titles)
        /\ \A a, b \in 1..Len(shots) :
            (pre.shots[a].track < pre.shots[b].track)
                <=> (shots[a].track < shots[b].track)

C10_Witness ==
    /\ op = "remove_unused_sequencer_tracks"
    /\ Len(trace) >= 1
    /\ Len(titles) >= 2
    /\ \E j \in 1..Len(shots) : shots[j].track # pre.shots[j].track

\* ------------------------------------------------------------ UDIM claims
Called_get_udim_filepaths == op = "get_udim_filepaths"

Elements(seq) == {seq[i] : i \in 1..Len(seq)}

StartsWith(str, sub) ==
    Len(str) >= Len(sub) /\ SubSeq(str, 1, Len(sub)) = sub

EndsWith(str, sub) ==
    Len(str) >= Len(sub) /\ SubSeq(str, Len(str) - Len(sub) + 1, Len(str)) = sub

\* the lengths n in 2..4 for which path is <anything>1001.<ext>, ext of n
\* characters
TrailingUdimExts(path) ==
    {n \in 2..4 :
        /\ Len(path) >= n + 5
        /\ SubSeq(path, Len(path) - n - 4, Len(path) - n) = T1001 \o <<".">>}

\* name is <prefix><anything><suffix> and glob would list it
Sibling(name, prefix, suffix) ==
    /\ Len(name) >= Len(prefix) + Len(suffix)
    /\ StartsWith(name, prefix)
    /\ EndsWith(name, suffix)
    /\ (Head(name) = "." => prefix # <<>> /\ Head(prefix) = ".")

Slashed(name) == [i \in 1..Len(name) |-> IF name[i] = "\\" THEN "/" ELSE name[i]]

Siblings(listing, prefix, suffix) ==
    {Slashed(name) : name \in {f \in Elements(listing) : Sibling(f, prefix, suffix)}}

\* C4: for a path ending in 1001.<ext> (ext of 2 to 4 characters, here
\* without a dot and in lower case, with matching files on disk)
\* get_udim_filepaths takes the offset where 1001.<ext> begins, globs
\* <prefix>*.<ext> and returns every file on disk matching it, backslashes
\* replaced by '/'.
C4_ExtensionConvention ==
    Called_get_udim_filepaths =>
        \A n \in TrailingUdimExts(args[1]) :
            LET path == args[1]
                offset == Len(path) - n - 5
                ext == SubSeq(path, Len(path) - n, Len(path))
            IN  (/\ offset > 0
                 /\ lower(path) = path
                 /\ \A i \in 2..Len(ext) : ext[i] # "."
                 /\ Siblings(disk, SubSeq(path, 1, offset), ext) # {})
                    => /\ ret.kind = "value"
                       /\ trace.path_start_length = Value(offset)
                       /\ trace.pattern = Value(SubSeq(path, 1, offset) \o <<"*">> \o ext)
                       /\ Elements(ret.val)
                            = Siblings(disk, SubSeq(path, 1, offset), ext)

NoUdimConvention(path) ==
    /\ TrailingUdimExts(path) = {}
    /\ \A i \in 0..(Len(path) - 10) :
        lower(SubSeq(path, i + 1, i + 10)) # UDIM_UV_PATTERN
    /\ \A i \in 0..(Len(path) - 6) :
        ~(/\ SubSeq(path, i + 1, i + 2) = <<"_", "u">>
          /\ path[i + 3] \in Digits
          /\ SubSeq(path, i + 4, i + 5) = <<"_", "v">>
          /\ path[i + 6] \in Digits)

\* C5: a path matching none of the three UDIM conventions gives the empty
\* list, whatever is on disk, and nothing is globbed.
C5_NoConventionEmpty ==
    (Called_get_udim_filepaths /\ NoUdimConvention(args[1])) =>
        /\ ret = Value(<<>>)
        /\ trace.pattern = None
        /\ trace.path_start_length = None

C5_Witness ==
    /\ Called_get_udim_filepaths
    /\ NoUdimConvention(args[1])
    /\ args[1] = <<"t">> \o ExtExr
    /\ Len(disk) >= 1
    /\ ret = Value(<<>>)

\* C6: a matched token at offset 0 (the path starts with _u<u>_v<v> in any
\* letter case, or with _u<digit>_v<digit> and holds no _u<u>_v<v>) is
\* treated as no match: empty list, no glob; a matched offset > 0 globs
\* path[:offset] * extension and returns its matches.
C6_ZeroOffsetIsNoMatch ==
    Called_get_udim_filepaths =>
        /\ StartsWith(lower(args[1]), UDIM_UV_PATTERN)
            => trace.path_start_length = Value(0)
        /\ (/\ \E d1, d2 \in Digits :
                StartsWith(args[1], <<"_", "u", d1, "_", "v", d2>>)
            /\ \A i \in 0..(Len(args[1]) - 10) :
                lower(SubSeq(args[1], i + 1, i + 10)) # UDIM_UV_PATTERN)
            => trace.path_start_length = Value(0)
        /\ trace.path_start_length = Value(0)
            => ret = Value(<<>>) /\ trace.pattern = None
        /\ (trace.path_start_length.kind = "value" /\ trace.path_start_length.val > 0)
            => LET prefix == SubSeq(args[1], 1, trace.path_start_length.val)
               IN  /\ trace.pattern = Value(prefix \o <<"*">> \o splitext(args[1]))
                   /\ ret.kind = "value"
                   /\ Elements(ret.val) = Siblings(disk, prefix, splitext(args[1]))

C6_Witness ==
    /\ Called_get_udim_filepaths
    /\ args[1] = Uv12 \o ExtExr
    /\ \E i \in 1..Len(disk) :
        /\ Head(disk[i]) # "."
        /\ EndsWith(disk[i], ExtExr)
    /\ trace.path_start_length = Value(0)
    /\ ret = Value(<<>>)

\* C7: get_udim_filepaths never raises: for every path it returns a list.
C7_Total ==
    Called_get_udim_filepaths => ret.kind = "value"

\* ---------------------------------------------------------- camera claims
Renderable == {cameras[i].name : i \in {j \in 1..Len(cameras) : cameras[j].renderable}}

\* C11: set_single_camera_renderable(cam) either returns normally with cam
\* the one and only renderable camera, or raises ValueError.
C11_TwoOutcomes ==
    op = "set_single_camera_renderable" =>
        \/ ret = None /\ Renderable = {args[1]}
        \/ ret = Raise("ValueError")

\* C11 as amended: set_single_camera_renderable(cam) returns normally only
\* with cam the one and only renderable camera; otherwise it raises
\* ValueError from its final test (cam is then not the only renderable
\* camera), or the host's RuntimeError from setAttr, cam's own renderable
\* attribute being locked or connected.
C11_SingleOrRaises ==
    op = "set_single_camera_renderable" =>
        LET cam == CHOOSE i \in 1..Len(cameras) : cameras[i].name = args[1]
        IN  \/ ret = None /\ Renderable = {args[1]}
            \/ ret = Raise("ValueError") /\ Renderable # {args[1]}
            \/ /\ ret = Raise("RuntimeError")
               /\ (cameras[cam].locked \/ cameras[cam].connected)

C11_Witness ==
    /\ op = "set_single_camera_renderable"
    /\ ret = Raise("ValueError")
    /\ trace # <<>>
    /\ args[1] \in Renderable
    /\ \E c \in Renderable : c # args[1]

====
